---- MODULE Spec2Model ----
(***************************************************************************)
(* Model of the Daily.co webhook receiver (src/webhook-server.js).         *)
(*                                                                         *)
(* Two specifications share the module:                                    *)
(*   Spec        the HTTP receiver: deliveries arrive, pass the body       *)
(*               middleware and a route handler, recording.ready events    *)
(*               suspend on the two provider lookups, lines are appended   *)
(*               to the log file;                                          *)
(*   SpecVerify  the pure function verifyWebhookSignature, applied to      *)
(*               inputs drawn from bounded sets.                           *)
(*                                                                         *)
(* Strings that the code inspects character by character (the signature    *)
(* header, hex digests) are sequences of one-character strings; strings    *)
(* the code only compares or prints are TLA+ strings.                      *)
(***************************************************************************)
EXTENDS Integers, Sequences, FiniteSets, TLC

\* Number of deliveries the receiver serves in one behaviour.
MaxRequests == 2
\* Length of the HMAC digest in bytes (32 for sha256; the model keeps it short).
DigestBytes == 2

\* JavaScript's undefined, where the value is otherwise a string.
Undefined == "<undefined>"

\* JavaScript truthiness of a value that is a string or undefined.
Truthy(s) == s # Undefined /\ s # ""

----------------------------------------------------------------------------
(* Hex strings and buffers *)

HexDigits == <<"0","1","2","3","4","5","6","7","8","9","a","b","c","d","e","f">>
UpperHex == <<"A","B","C","D","E","F">>

\* Value of a hex character, -1 when it is not one (either case is accepted).
unhex(c) ==
    IF \E i \in 1..16 : HexDigits[i] = c
    THEN (CHOOSE i \in 1..16 : HexDigits[i] = c) - 1
    ELSE IF \E i \in 1..6 : UpperHex[i] = c
         THEN (CHOOSE i \in 1..6 : UpperHex[i] = c) + 9
         ELSE -1

\* Buffer.from(s, 'hex'): whole pairs of hex characters are decoded from the
\* left; decoding stops at the first pair holding a non-hex character, and a
\* trailing single character is dropped.
RECURSIVE HexDecodeFrom(_, _)
HexDecodeFrom(s, i) ==
    IF 2 * i + 2 > Len(s) THEN <<>>
    ELSE LET a == unhex(s[2 * i + 1])
             b == unhex(s[2 * i + 2])
         IN IF a < 0 \/ b < 0 THEN <<>>
            ELSE <<16 * a + b>> \o HexDecodeFrom(s, i + 1)

HexDecode(s) == HexDecodeFrom(s, 0)

\* digest('hex'): two lowercase hex characters per byte.
RECURSIVE HexEncode(_)
HexEncode(bytes) ==
    IF bytes = <<>> THEN <<>>
    ELSE <<HexDigits[(Head(bytes) \div 16) + 1], HexDigits[(Head(bytes) % 16) + 1]>>
         \o HexEncode(Tail(bytes))

\* The base-256 digits of n, most significant first, k of them.
RECURSIVE BytesOf(_, _)
BytesOf(n, k) ==
    IF k = 0 THEN <<>> ELSE BytesOf(n \div 256, k - 1) \o <<n % 256>>

RECURSIVE Pow(_, _)
Pow(b, e) == IF e = 0 THEN 1 ELSE b * Pow(b, e - 1)

----------------------------------------------------------------------------
(* Request bodies: the raw bytes on the wire, named by their text *)

B_started == "{\"type\":\"recording.started\",\"payload\":{\"room_name\":\"demo\",\"recording_id\":\"r1\"}}"
B_startedNoPayload == "{\"type\":\"recording.started\"}"
B_ready == "{\"type\":\"recording.ready-to-download\",\"payload\":{\"room_name\":\"demo\",\"recording_id\":\"r1\"}}"
B_readyNoPayload == "{\"type\":\"recording.ready-to-download\"}"
B_error == "{\"type\":\"recording.error\",\"payload\":{\"room_name\":\"demo\",\"recording_id\":\"r1\"}}"
B_unknown == "{\"type\":\"meeting.started\",\"payload\":{\"room_name\":\"demo\"}}"
B_noType == "{\"payload\":{\"room_name\":\"demo\",\"recording_id\":\"r1\"}}"
B_null == "null"
B_invalid == "{\"type\":\"recording.started\""
B_empty == ""

\* Every byte string the model signs, in a fixed order (the order only feeds
\* the digest function below).
AllPayloads ==
    <<B_started, B_startedNoPayload, B_ready, B_readyNoPayload, B_error,
      B_unknown, B_noType, B_null, B_invalid, B_empty>>

\* Every signing secret of the model.
AllSecrets == <<"whsec_A", "whsec_B">>

IndexOf(seq, x) == CHOOSE i \in 1..Len(seq) : seq[i] = x

\* crypto.createHmac('sha256', secret).update(payload).digest(): the keyed
\* digest as DigestBytes bytes. SHA-256 itself is idealised: the digest is a
\* fixed function of (payload, secret) with no collision among the model's
\* payloads and secrets (the multiplier is odd, so the map is a bijection
\* modulo 256^DigestBytes).
Hmac(payload, secret) ==
    LET code == (IndexOf(AllPayloads, payload) - 1) * Len(AllSecrets)
                + IndexOf(AllSecrets, secret)
    IN BytesOf((code * 40503 + 4919) % Pow(256, DigestBytes), DigestBytes)

\* The hex digest a sender holding `secret` computes for `payload`.
HmacHex(payload, secret) == HexEncode(Hmac(payload, secret))

----------------------------------------------------------------------------
(* verifyWebhookSignature *)

\* The algorithm tag the provider may put before the digest.
Sha256Prefix == <<"s","h","a","2","5","6","=">>

startsWith(s, p) == Len(s) >= Len(p) /\ SubSeq(s, 1, Len(p)) = p
slice(s, n) == SubSeq(s, n + 1, Len(s))

\* A buffer compare that only looks at the lengths.
timingSafeEqualLengthOnly(a, b) ==
    IF Len(a) # Len(b) THEN "RangeError" ELSE "true"

\* crypto.timingSafeEqual(a, b): throws a RangeError when the byte lengths
\* differ, otherwise tells whether the buffers are equal.
timingSafeEqual(a, b) ==
    IF Len(a) # Len(b) THEN "RangeError"
    ELSE IF a = b THEN "true" ELSE "false"

\* A payload as the handler holds it: req.body is a Buffer of the raw bytes
\* or an already parsed object.
Buffer(raw) == [isBuffer |-> TRUE, raw |-> raw]
Parsed(raw) == [isBuffer |-> FALSE, raw |-> raw]

\* A header value: absent (undefined) or a string.
NoHeader == [set |-> FALSE, val |-> <<>>]
Header(v) == [set |-> TRUE, val |-> v]
HeaderTruthy(h) == h.set /\ h.val # <<>>

\* A verifier that compares the header as it is, tag included.
verifyWebhookSignatureKeepingTag(payload, signature, secret) ==
    IF ~Truthy(secret) \/ ~HeaderTruthy(signature) THEN "false"
    ELSE IF ~payload.isBuffer THEN "TypeError"
    ELSE timingSafeEqual(HexDecode(HmacHex(payload.raw, secret)), HexDecode(signature.val))

\* verifyWebhookSignature(payload, signature, secret). The result is "true",
\* "false", or the name of the error it throws: hmac.update() throws a
\* TypeError when the payload is an object, timingSafeEqual a RangeError.
verifyWebhookSignature(payload, signature, secret) ==
    IF ~Truthy(secret) \/ ~HeaderTruthy(signature) THEN "false"
    ELSE IF ~payload.isBuffer THEN "TypeError"
    ELSE LET expectedSignature == HmacHex(payload.raw, secret)
             actualSignature ==
                 IF startsWith(signature.val, Sha256Prefix)
                 THEN slice(signature.val, 7)
                 ELSE signature.val
         IN timingSafeEqual(HexDecode(expectedSignature), HexDecode(actualSignature))

----------------------------------------------------------------------------
(* JSON decoding and the body middleware *)

\* A decoded event. ok is FALSE when decoding throws a SyntaxError; isNull
\* tells the JSON value null; type is event.type (Undefined when the object
\* has none); hasPayload tells whether event.payload is truthy.
Json(isNull, type, hasPayload, room, rec) ==
    [ok |-> TRUE, isNull |-> isNull, type |-> type, hasPayload |-> hasPayload,
     room_name |-> room, recording_id |-> rec]
SyntaxError ==
    [ok |-> FALSE, isNull |-> FALSE, type |-> Undefined, hasPayload |-> FALSE,
     room_name |-> Undefined, recording_id |-> Undefined]

\* JSON.parse(text) on the model's bodies.
JSONParse(text) ==
    CASE text = B_started -> Json(FALSE, "recording.started", TRUE, "demo", "r1")
      [] text = B_startedNoPayload ->
            Json(FALSE, "recording.started", FALSE, Undefined, Undefined)
      [] text = B_ready ->
            Json(FALSE, "recording.ready-to-download", TRUE, "demo", "r1")
      [] text = B_readyNoPayload ->
            Json(FALSE, "recording.ready-to-download", FALSE, Undefined, Undefined)
      [] text = B_error -> Json(FALSE, "recording.error", TRUE, "demo", "r1")
      [] text = B_unknown -> Json(FALSE, "meeting.started", TRUE, "demo", Undefined)
      [] text = B_noType -> Json(FALSE, Undefined, TRUE, "demo", "r1")
      [] text = B_null -> Json(TRUE, Undefined, FALSE, Undefined, Undefined)
      [] OTHER -> SyntaxError

\* The object the handler sees when the body was already parsed: the parsed
\* value, or {} when the request carried no body.
ObjectOf(raw) ==
    IF raw = B_empty THEN Json(FALSE, Undefined, FALSE, Undefined, Undefined)
    ELSE JSONParse(raw)

\* The body middleware, for a request sent as application/json:
\* express.raw on /webhook leaves req.body a Buffer of the raw bytes, and
\* express.json then skips the parsed request; on every other path
\* express.json (strict) decodes the body itself and fails the request with
\* 400 when it is not the text of a JSON object or array. err tells that
\* failure; the route handler is then never entered.
BodyParser(path, raw) ==
    IF path = "/webhook" /\ raw # B_empty THEN [err |-> FALSE, body |-> Buffer(raw)]
    ELSE IF raw = B_empty \/ (JSONParse(raw).ok /\ ~JSONParse(raw).isNull)
         THEN [err |-> FALSE, body |-> Parsed(raw)]
         ELSE [err |-> TRUE, body |-> Parsed(raw)]

----------------------------------------------------------------------------
(* Log lines *)

\* A line handed to writeLog (the timestamp is left out). tag is the fixed
\* leading text; the other fields are the values interpolated into it.
Line(tag, type, room, rec, dl, stream, msg) ==
    [tag |-> tag, type |-> type, room |-> room, rec |-> rec,
     dl |-> dl, stream |-> stream, msg |-> msg]

NA == "-"
InvalidSignatureLine == Line("WEBHOOK ERROR", NA, NA, NA, NA, NA, "Invalid signature")
ErrorLine(msg) == Line("WEBHOOK ERROR", NA, NA, NA, NA, NA, msg)
ReceivedTypeLine(type) == Line("WEBHOOK: Received event type", type, NA, NA, NA, NA, NA)
EventReceivedLine(type) == Line("WEBHOOK EVENT RECEIVED", type, NA, NA, NA, NA, NA)
InvalidEventLine(type) ==
    Line("INVALID EVENT", type, NA, NA, NA, NA, "Missing payload")
StartedLine(room, rec) == Line("RECORDING STARTED", NA, room, rec, NA, NA, NA)
ReadyLine(room, rec, dl, stream) ==
    Line("RECORDING STOPPED & READY", NA, room, rec, dl, stream, NA)
RecordingErrorLine(room, rec) == Line("RECORDING ERROR", NA, room, rec, NA, NA, NA)
TestLine == Line("TEST: Webhook server test endpoint accessed", NA, NA, NA, NA, NA, NA)
VerificationLine == Line("VERIFICATION", NA, NA, NA, NA, NA, NA)

\* error.message of the errors the handlers catch.
ErrorMessage(name) ==
    CASE name = "RangeError" -> "Input buffers must have the same byte length"
      [] name = "TypeError" -> "The \"data\" argument must be of type string or an instance of Buffer"
      [] name = "NullTypeError" -> "Cannot read properties of null (reading 'type')"
      [] OTHER -> "Unexpected token in JSON"

----------------------------------------------------------------------------
(* State *)

VARIABLES
    WEBHOOK_SECRET,  \* process.env.DAILY_WEBHOOK_SECRET, read once at load
    DAILY_API_KEY,   \* process.env.DAILY_API_KEY, read by each lookup
    run,             \* how many times the process has been started
    server,          \* "starting" until the listen callback has run, "exited"
                     \* once a signal handler has called process.exit
    logFile,         \* the lines appended to LOG_FILE, each with the request it was written for
    logWritable,     \* whether fs.appendFileSync succeeds at present
    reqs,            \* the deliveries received so far, in order of arrival
    vcall,           \* SpecVerify only: one call of verifyWebhookSignature
    cli,             \* SpecCli only: the session files of daily-test.js and the
                     \* provider's rooms
    setup            \* SpecSetup only: a run of WebhookSetup.setupWebhook and the
                     \* provider's subscriptions

vars ==
    <<WEBHOOK_SECRET, DAILY_API_KEY, run, server, logFile, logWritable, reqs, vcall,
      cli, setup>>

\* JavaScript's null, where the value is otherwise a string.
Null == "<null>"

\* process.env.LOG_FILE || './recording_events.log', with LOG_FILE unset.
LOG_FILE == "./recording_events.log"

\* A request as it arrives; resLogFile is the logFile member of the response
\* body, where it has one, and secret the WEBHOOK_SECRET of the process that
\* serves it; sent counts the responses sent for it. The fields below it record what serving the request
\* did: the lines it handed to writeLog, whether one of them failed to reach
\* the file, whether the handler reached its decode step, the handle*
\* function the switch dispatched to, the provider calls it issued and how
\* each lookup ended.
NewRequest(method, path, headers, raw) ==
    [method |-> method, path |-> path, headers |-> headers, raw |-> raw,
     body |-> Parsed(B_empty), pc |-> "received", status |-> 0, resBody |-> NA,
     resLogFile |-> NA, secret |-> WEBHOOK_SECRET, sent |-> 0,
     lines |-> <<>>, logErr |-> FALSE, parsed |-> FALSE, handler |-> "none",
     calls |-> <<>>, downloadUrl |-> Null, dlOutcome |-> "none", alOutcome |-> "none"]

\* The delivery is waiting for one of the two provider lookups to return.
AwaitingLookup(q) == q.pc \in {"awaitDownload", "awaitAccess"}

\* The vcall of a behaviour of Spec, where verifyWebhookSignature is only
\* called from the handlers.
NoCall ==
    [payload |-> Buffer(B_empty), signature |-> NoHeader, secret |-> Undefined,
     out |-> "-"]

\* A session file that does not exist; an existing room-info.json holds the
\* name of a room, an existing recording-info.json the name of a room and
\* the id of a recording. A room's name is its serial number, and so is the
\* id of the recording the provider starts in it.
NoFile == [exists |-> FALSE, roomName |-> 0, recordingId |-> 0]

\* The last run of the CLI: its command, whether it reported an error, and
\* the mutations it sent to the provider.
NoCommand == [command |-> "none", error |-> FALSE, calls |-> <<>>]

\* The cli before any command: no session file, no room; names counts the
\* room names generated, started holds the rooms in which a start-recording
\* of this session succeeded.
NoSession ==
    [roomInfo |-> NoFile, recordingInfo |-> NoFile, names |-> 0, rooms |-> {},
     started |-> {}, last |-> NoCommand]

\* The setup before setupWebhook is called. webhooks are the subscriptions
\* registered with the provider, listed those of the response to the list
\* call, todo those the loop has still to delete, attempted those a delete
\* was sent for, created the id of the new subscription, envSecret the
\* DAILY_WEBHOOK_SECRET of .env and hmac the secret the new subscription
\* signs with.
NoSetup ==
    [pc |-> "idle", webhooks |-> {}, listed |-> {}, todo |-> <<>>, attempted |-> {},
     created |-> 0, webhookSecret |-> Undefined, envSecret |-> Undefined,
     hmac |-> Undefined]

----------------------------------------------------------------------------
(* Handlers, as functions of the request being served *)

\* writeLog(message), as far as the request is concerned: the message is
\* handed over; whether it reaches the file is decided in Commit.
writeLog(q, message) == [q EXCEPT !.lines = Append(@, message)]

\* res.status(status).json(body): the response ends the request.
json(q, status, body) ==
    [q EXCEPT !.status = status, !.resBody = body, !.pc = "done", !.sent = @ + 1]

\* res.json({ ..., logFile: LOG_FILE }) of the two diagnostic endpoints: the
\* status is 200; the timestamp member is left out.
jsonWithLogFile(q, body) == [json(q, 200, body) EXCEPT !.resLogFile = LOG_FILE]

\* The catch block of both route handlers.
catch(q, error) ==
    json(writeLog(q, ErrorLine(ErrorMessage(error))), 500, "Internal server error")

\* A started handler that logs the recording id where the room belongs.
handleRecordingStartedSwapped(q, event) ==
    IF ~event.hasPayload
    THEN writeLog(q, InvalidEventLine("recording.started"))
    ELSE writeLog(q, StartedLine(event.recording_id, event.room_name))

handleRecordingStarted(q, event) ==
    IF ~event.hasPayload
    THEN writeLog(q, InvalidEventLine("recording.started"))
    ELSE writeLog(q, StartedLine(event.room_name, event.recording_id))

\* A ready handler that starts the lookup before it looks at the payload.
handleRecordingReadyUnguarded(q, event) ==
    [q EXCEPT !.pc = "awaitDownload",
              !.calls = Append(@, [api |-> "recordings", id |-> event.recording_id])]

\* handleRecordingReady up to its first await: with a payload the metadata
\* lookup is issued and the handler suspends.
handleRecordingReady(q, event) ==
    IF ~event.hasPayload
    THEN writeLog(q, InvalidEventLine("recording.ready-to-download"))
    ELSE [q EXCEPT !.pc = "awaitDownload",
                   !.calls = Append(@, [api |-> "recordings", id |-> event.recording_id])]

handleRecordingError(q, event) ==
    IF ~event.hasPayload
    THEN writeLog(q, InvalidEventLine("recording.error"))
    ELSE writeLog(q, RecordingErrorLine(event.room_name, event.recording_id))

\* A decode step that also fails, as on a syntax error, when the decoded
\* object has no type field.
ParseEventRequiringType(payload) ==
    LET event == IF payload.isBuffer THEN JSONParse(payload.raw) ELSE ObjectOf(payload.raw)
    IN IF event.ok /\ ~event.isNull /\ event.type = Undefined THEN SyntaxError ELSE event

\* The decode step: JSON.parse on a string or Buffer, the object itself
\* otherwise.
ParseEvent(payload) ==
    IF payload.isBuffer THEN JSONParse(payload.raw) ELSE ObjectOf(payload.raw)

\* An acknowledgment sent twice.
AcknowledgeTwice(q) == json(json(q, 200, "received"), 200, "received")

\* res.status(200).json({ status: 'received' })
Acknowledge(q) == json(q, 200, "received")

Entered(q, h) == [q EXCEPT !.handler = h]

\* A switch whose default branch refuses the event.
DispatchRejectingDefault(q, event) ==
    IF event.isNull THEN catch(q, "NullTypeError")
    ELSE CASE event.type = "recording.started" ->
                Acknowledge(handleRecordingStarted(Entered(q, "handleRecordingStarted"), event))
           [] event.type = "recording.ready-to-download" ->
                LET q2 == handleRecordingReady(Entered(q, "handleRecordingReady"), event)
                IN IF q2.pc = "awaitDownload" THEN q2 ELSE Acknowledge(q2)
           [] event.type = "recording.error" ->
                Acknowledge(handleRecordingError(Entered(q, "handleRecordingError"), event))
           [] OTHER ->
                json(writeLog(q, ErrorLine("Unknown event type")), 400, "Unknown event type")

\* switch (event.type) { ... } and the acknowledgment after it. Reading
\* event.type throws a TypeError when the body decoded to null.
Dispatch(q, event) ==
    IF event.isNull THEN catch(q, "NullTypeError")
    ELSE CASE event.type = "recording.started" ->
                Acknowledge(handleRecordingStarted(Entered(q, "handleRecordingStarted"), event))
           [] event.type = "recording.ready-to-download" ->
                LET q2 == handleRecordingReady(Entered(q, "handleRecordingReady"), event)
                IN IF q2.pc = "awaitDownload" THEN q2 ELSE Acknowledge(q2)
           [] event.type = "recording.error" ->
                Acknowledge(handleRecordingError(Entered(q, "handleRecordingError"), event))
           [] OTHER ->
                Acknowledge(writeLog(Entered(q, "default"), ReceivedTypeLine(event.type)))

\* req.headers['x-daily-signature'] || req.headers['x-signature']
SignatureOf(headers) ==
    IF HeaderTruthy(headers.xDaily) THEN headers.xDaily ELSE headers.xSig

Thrown == {"RangeError", "TypeError"}

\* app.post('/webhook', ...) up to its response or its first await.
postWebhook(q) ==
    LET signature == SignatureOf(q.headers)
        payload == q.body
        checked == Truthy(WEBHOOK_SECRET) /\ HeaderTruthy(signature)
        isValid == verifyWebhookSignature(payload, signature, WEBHOOK_SECRET)
        event == ParseEvent(payload)
    IN IF checked /\ isValid \in Thrown THEN catch(q, isValid)
       ELSE IF checked /\ isValid = "false"
            THEN json(writeLog(q, InvalidSignatureLine), 401, "Invalid signature")
       ELSE IF ~event.ok THEN catch([q EXCEPT !.parsed = TRUE], "SyntaxError")
       ELSE Dispatch([q EXCEPT !.parsed = TRUE], event)

\* app.all('/', ...) up to its response or its first await.
allRoot(q) ==
    LET signature == SignatureOf(q.headers)
        payload == q.body
        checked == Truthy(WEBHOOK_SECRET) /\ HeaderTruthy(signature)
        isValid == verifyWebhookSignature(payload, signature, WEBHOOK_SECRET)
        event == ParseEvent(payload)
    IN IF q.method = "GET"
       THEN json(writeLog(q, VerificationLine), 200, "Daily.co webhook endpoint verified")
       ELSE IF q.method # "POST" THEN json(q, 405, "Method not allowed")
       ELSE IF checked /\ isValid \in Thrown THEN catch(q, isValid)
       ELSE IF checked /\ isValid = "false"
            THEN json(writeLog(q, InvalidSignatureLine), 401, "Invalid signature")
       ELSE IF ~event.ok THEN catch([q EXCEPT !.parsed = TRUE], "SyntaxError")
       ELSE Dispatch(writeLog([q EXCEPT !.parsed = TRUE], EventReceivedLine(event.type)),
                     event)

\* app.get('/webhook', ...)
getWebhook(q) ==
    json(writeLog(q, VerificationLine), 200, "Daily.co webhook endpoint verified")

\* A health endpoint that asks for a signature header when a secret is
\* configured.
getHealthGuarded(q) ==
    IF Truthy(WEBHOOK_SECRET) /\ ~HeaderTruthy(SignatureOf(q.headers))
    THEN json(q, 401, "Invalid signature")
    ELSE jsonWithLogFile(q, "healthy")

\* app.get('/health', ...)
getHealth(q) == jsonWithLogFile(q, "healthy")

\* app.get('/test', ...)
getTest(q) == jsonWithLogFile(writeLog(q, TestLine), "Webhook server is running")

\* The middleware and the router: the body parser first, then the first
\* route that matches the method and the path; Express answers 400 when the
\* body parser fails and 404 when no route matches.
Route(q) ==
    LET mw == BodyParser(q.path, q.raw)
        q1 == [q EXCEPT !.body = mw.body]
    IN IF mw.err THEN json(q1, 400, "Bad Request")
       ELSE IF q.path = "/" THEN allRoot(q1)
       ELSE IF q.path = "/health" /\ q.method = "GET" THEN getHealth(q1)
       ELSE IF q.path = "/test" /\ q.method = "GET" THEN getTest(q1)
       ELSE IF q.path = "/webhook" /\ q.method = "POST" THEN postWebhook(q1)
       ELSE IF q.path = "/webhook" /\ q.method = "GET" THEN getWebhook(q1)
       ELSE json(q1, 404, "Not Found")

----------------------------------------------------------------------------
(* The lookups *)

\* What getRecordingDownloadUrl / getRecordingAccessLink return for the way
\* the provider call ended: response.data.download_link when the response
\* carries one, null when it does not, null when the call failed (the error
\* is caught and printed to standard error).
LookupOutcomes == {"link", "nolink", "error"}

\* The ways a lookup can end under the key in force: sent with "Bearer
\* undefined" the call is refused by the provider.
LookupResults == IF Truthy(DAILY_API_KEY) THEN LookupOutcomes ELSE {"error"}
getRecordingDownloadUrl(outcome) == IF outcome = "link" THEN "https://download" ELSE Null
getRecordingAccessLink(outcome) == IF outcome = "link" THEN "https://access" ELSE Null

\* value || 'Not available'
OrNotAvailable(v) == IF v # Null /\ Truthy(v) THEN v ELSE "Not available"

\* The message handleRecordingReady logs once both lookups have returned.
readyMessage(event, downloadUrl, accessLink) ==
    ReadyLine(event.room_name, event.recording_id,
              OrNotAvailable(downloadUrl), OrNotAvailable(accessLink))

----------------------------------------------------------------------------
(* Inputs *)

Methods == {"GET", "POST", "PUT"}
Paths == {"/", "/webhook"}
\* The diagnostic endpoints, which are only ever requested with GET.
ProbePaths == {"/health", "/test"}

\* The bodies the provider (or anyone else) posts.
Bodies ==
    {B_started, B_startedNoPayload, B_ready, B_readyNoPayload, B_error,
     B_unknown, B_noType, B_null, B_invalid}

\* The secret the provider signs with.
SenderSecret == "whsec_A"

\* The signature strings tried for a body: the provider's digest, bare and
\* tagged; the digest under another secret; the digest cut short; the digest
\* followed by characters that are not hex; the empty string.
Signatures(raw) ==
    LET d == HmacHex(raw, SenderSecret)
    IN {d, Sha256Prefix \o d, HmacHex(raw, "whsec_B"),
        SubSeq(d, 1, Len(d) - 2), d \o <<"z", "z">>, <<>>}

\* The signature headers of a delivery: none, x-daily-signature with one of
\* the strings above, or x-signature with the provider's digest.
HeaderChoices(raw) ==
    {[xDaily |-> NoHeader, xSig |-> NoHeader],
     [xDaily |-> NoHeader, xSig |-> Header(HmacHex(raw, SenderSecret))]}
    \cup {[xDaily |-> Header(v), xSig |-> NoHeader] : v \in Signatures(raw)}

\* The signature headers tried on a GET: none, or an x-daily-signature that
\* a POST would be refused for.
ProbeHeaders ==
    {h \in HeaderChoices(B_empty) :
        ~h.xSig.set /\ (h.xDaily.set => Len(h.xDaily.val) = 2 * DigestBytes - 2)}

\* The values DAILY_WEBHOOK_SECRET takes: unset, or the provider's secret.
SecretEnv == {Undefined, SenderSecret}

\* The values DAILY_API_KEY takes: unset, or the key of the account.
ApiKey == "key_live"
KeyEnv == {Undefined, ApiKey}

----------------------------------------------------------------------------
(* Actions *)

Init ==
    /\ WEBHOOK_SECRET \in SecretEnv
    /\ DAILY_API_KEY = ApiKey
    /\ run = 1
    /\ server = "starting"
    /\ logFile = <<>>
    /\ logWritable = TRUE
    /\ reqs = <<>>
    /\ vcall = NoCall
    /\ cli = NoSession
    /\ setup = NoSetup

ServerStartedLine == Line("Daily.co Webhook Server started", NA, NA, NA, NA, NA, NA)

\* A write that replaces the content of the file, as fs.writeFileSync does.
AppendedTruncating(i, lines, from) ==
    IF logWritable
    THEN [k \in 1..(Len(lines) - from) |-> [req |-> i, line |-> lines[from + k]]]
    ELSE logFile

\* fs.appendFileSync for every line among `lines` from position `from` on,
\* written for request i: each reaches the file when the file is writable;
\* otherwise the error is caught and the file is left as it is.
Appended(i, lines, from) ==
    IF logWritable
    THEN logFile \o [k \in 1..(Len(lines) - from) |-> [req |-> i, line |-> lines[from + k]]]
    ELSE logFile

\* A step in which a failed write is not caught by writeLog: it reaches the
\* catch block of the route handler, which answers 500.
CommitPropagating(i, q, q2) ==
    LET failed == Len(q2.lines) > Len(q.lines) /\ ~logWritable
        q3 == IF failed
              THEN [json(q2, 500, "Internal server error") EXCEPT !.logErr = TRUE]
              ELSE q2
    IN /\ logFile' = Appended(i, q2.lines, Len(q.lines))
       /\ reqs' = IF i > Len(reqs) THEN Append(reqs, q3) ELSE [reqs EXCEPT ![i] = q3]

\* The effect on the request and on the file of a step that took request i
\* from q to q2.
Commit(i, q, q2) ==
    LET wrote == Len(q2.lines) > Len(q.lines)
        q3 == [q2 EXCEPT !.logErr = @ \/ (wrote /\ ~logWritable)]
    IN /\ logFile' = Appended(i, q2.lines, Len(q.lines))
       /\ reqs' = IF i > Len(reqs) THEN Append(reqs, q3) ELSE [reqs EXCEPT ![i] = q3]

\* The callback of app.listen: the start line is logged.
Listen ==
    /\ server = "starting"
    /\ server' = "listening"
    /\ logFile' = Appended(0, <<ServerStartedLine>>, 0)
    /\ UNCHANGED <<WEBHOOK_SECRET, DAILY_API_KEY, run, logWritable, reqs, vcall,
                 cli, setup>>

\* The request is served up to its response or its first await.
Serve(method, path, headers, raw) ==
    LET q == NewRequest(method, path, headers, raw)
    IN Commit(Len(reqs) + 1, q, Route(q))

\* A request arrives.
\* Only a POST carries a body; a GET may carry a signature header all the
\* same.
Deliver ==
    /\ server = "listening"
    /\ Len(reqs) < MaxRequests
    /\ \E method \in Methods, path \in Paths \cup ProbePaths, raw \in Bodies \cup {B_empty} :
         \E headers \in HeaderChoices(raw) :
           /\ (method = "POST") = (raw # B_empty)
           /\ path \in ProbePaths => method = "GET"
           /\ method = "GET" => headers \in ProbeHeaders
           /\ method = "PUT" => headers = [xDaily |-> NoHeader, xSig |-> NoHeader]
           /\ Serve(method, path, headers, raw)
    /\ UNCHANGED <<WEBHOOK_SECRET, DAILY_API_KEY, run, server, logWritable, vcall,
                 cli, setup>>

\* A metadata lookup that is tried a second time when it has failed.
DownloadDoneRetrying ==
    /\ server = "listening"
    /\ \E i \in 1..Len(reqs), outcome \in LookupResults :
         /\ reqs[i].pc = "awaitDownload"
         /\ LET q == reqs[i]
                event == ParseEvent(q.body)
                next == IF outcome = "error" /\ Len(q.calls) < 2 THEN "recordings"
                        ELSE "access-link"
            IN Commit(i, q, [q EXCEPT !.pc = IF next = "recordings" THEN "awaitDownload"
                                             ELSE "awaitAccess",
                                      !.downloadUrl = getRecordingDownloadUrl(outcome),
                                      !.dlOutcome = outcome,
                                      !.calls = Append(@, [api |-> next,
                                                           id |-> event.recording_id])])
    /\ UNCHANGED <<WEBHOOK_SECRET, DAILY_API_KEY, run, server, logWritable, vcall,
                 cli, setup>>

\* The metadata lookup of request i returns; the access-link lookup is
\* issued.
DownloadDone ==
    /\ server = "listening"
    /\ \E i \in 1..Len(reqs), outcome \in LookupResults :
         /\ reqs[i].pc = "awaitDownload"
         /\ LET q == reqs[i]
                event == ParseEvent(q.body)
            IN Commit(i, q, [q EXCEPT !.pc = "awaitAccess",
                                      !.downloadUrl = getRecordingDownloadUrl(outcome),
                                      !.dlOutcome = outcome,
                                      !.calls = Append(@, [api |-> "access-link",
                                                           id |-> event.recording_id])])
    /\ UNCHANGED <<WEBHOOK_SECRET, DAILY_API_KEY, run, server, logWritable, vcall,
                 cli, setup>>

\* The access-link lookup of request i returns: handleRecordingReady logs
\* its record and the route handler acknowledges.
AccessDone ==
    /\ server = "listening"
    /\ \E i \in 1..Len(reqs), outcome \in LookupResults :
         /\ reqs[i].pc = "awaitAccess"
         /\ LET q == reqs[i]
                event == ParseEvent(q.body)
                accessLink == getRecordingAccessLink(outcome)
            IN Commit(i, q, Acknowledge(writeLog([q EXCEPT !.alOutcome = outcome],
                                                  readyMessage(event, q.downloadUrl, accessLink))))
    /\ UNCHANGED <<WEBHOOK_SECRET, DAILY_API_KEY, run, server, logWritable, vcall,
                 cli, setup>>

\* The log file stops being writable (the disk fills up, the file is made
\* read-only); it stays so for the rest of the behaviour.
LogFault ==
    /\ logWritable
    /\ logWritable' = FALSE
    /\ UNCHANGED <<WEBHOOK_SECRET, DAILY_API_KEY, run, server, logFile, reqs, vcall,
                 cli, setup>>

Next == Listen \/ Deliver \/ DownloadDone \/ AccessDone \/ LogFault

Spec == Init /\ [][Next]_vars

----------------------------------------------------------------------------
(* The life of the process: the specification SpecLifecycle *)

\* How many times the process is started on the same log file.
MaxRuns == 2

ShutdownLine == Line("Webhook server shutting down...", NA, NA, NA, NA, NA, NA)
TerminatedLine == Line("Webhook server terminated", NA, NA, NA, NA, NA, NA)
Signals == {"SIGINT", "SIGTERM"}
MarkerOf(sig) == IF sig = "SIGINT" THEN ShutdownLine ELSE TerminatedLine

\* The deliveries that suspended in this process are never resumed.
Dropped(q) == IF AwaitingLookup(q) THEN [q EXCEPT !.pc = "dropped"] ELSE q

InitLifecycle ==
    /\ WEBHOOK_SECRET \in SecretEnv
    /\ DAILY_API_KEY \in KeyEnv
    /\ run = 1
    /\ server = "starting"
    /\ logFile = <<>>
    /\ logWritable = TRUE
    /\ reqs = <<>>
    /\ vcall = NoCall
    /\ cli = NoSession
    /\ setup = NoSetup

\* A shutdown that drains: the deliveries waiting for a lookup are
\* acknowledged before the process exits.
SignalDraining ==
    /\ server \in {"starting", "listening"}
    /\ \E sig \in Signals : logFile' = Appended(0, <<MarkerOf(sig)>>, 0)
    /\ server' = "exited"
    /\ reqs' = [i \in 1..Len(reqs) |->
                  IF AwaitingLookup(reqs[i]) THEN Acknowledge(reqs[i]) ELSE reqs[i]]
    /\ UNCHANGED <<WEBHOOK_SECRET, DAILY_API_KEY, run, logWritable, vcall,
                 cli, setup>>

\* process.on('SIGINT' | 'SIGTERM'): the marker is logged and the process
\* exits with status 0, whatever its requests are waiting for.
Signal ==
    /\ server \in {"starting", "listening"}
    /\ \E sig \in Signals : logFile' = Appended(0, <<MarkerOf(sig)>>, 0)
    /\ server' = "exited"
    /\ reqs' = [i \in 1..Len(reqs) |-> Dropped(reqs[i])]
    /\ UNCHANGED <<WEBHOOK_SECRET, DAILY_API_KEY, run, logWritable, vcall,
                 cli, setup>>

\* The program is started again: the module is loaded, the environment is
\* read, the directory of the log file is made if it is missing. The log
\* file is not touched.
Start ==
    /\ server = "exited"
    /\ run < MaxRuns
    /\ run' = run + 1
    /\ server' = "starting"
    /\ WEBHOOK_SECRET' \in SecretEnv
    /\ DAILY_API_KEY' \in KeyEnv
    /\ UNCHANGED <<logFile, logWritable, reqs, vcall,
                 cli, setup>>

\* The requests of a day without incident: the provider's deliveries of the
\* two events of a recording, unsigned or signed with its secret, and the
\* health probe.
OrdinaryBodies == {B_started, B_ready}
OrdinaryHeaders(raw) ==
    {h \in HeaderChoices(raw) :
        ~h.xSig.set /\ (h.xDaily.set => h.xDaily.val = HmacHex(raw, SenderSecret))}

DeliverOrdinary ==
    /\ server = "listening"
    /\ Len(reqs) < MaxRequests
    /\ \/ \E raw \in OrdinaryBodies : \E headers \in OrdinaryHeaders(raw) :
            Serve("POST", "/webhook", headers, raw)
       \/ Serve("GET", "/health", [xDaily |-> NoHeader, xSig |-> NoHeader], B_empty)
    /\ UNCHANGED <<WEBHOOK_SECRET, DAILY_API_KEY, run, server, logWritable, vcall,
                 cli, setup>>

NextLifecycle ==
    \/ Listen \/ DeliverOrdinary \/ DownloadDone \/ AccessDone \/ LogFault
    \/ Signal \/ Start

SpecLifecycle == InitLifecycle /\ [][NextLifecycle]_vars

----------------------------------------------------------------------------
(* verifyWebhookSignature as a function: the specification SpecVerify *)

UpperOf(c) ==
    IF \E i \in 11..16 : HexDigits[i] = c
    THEN UpperHex[(CHOOSE i \in 11..16 : HexDigits[i] = c) - 10]
    ELSE c
UpperCase(s) == [k \in 1..Len(s) |-> UpperOf(s[k])]

\* Longest string tried that is not built from a digest.
MaxShortSig == 2
ShortAlphabet == {"0", "f", "z"}
ShortStrings == UNION {[1..n -> ShortAlphabet] : n \in 0..MaxShortSig}

\* The signature strings tried against a payload: for each secret the digest,
\* bare, tagged and in upper case; every proper prefix of it; the digest
\* followed by one or two more characters, hex or not; and every short
\* string over a three-letter alphabet.
VerifySignatures(raw) ==
    LET Around(d) ==
            {d, Sha256Prefix \o d, UpperCase(d)}
            \cup {SubSeq(d, 1, k) : k \in 0..(Len(d) - 1)}
            \cup {d \o t : t \in {<<"0">>, <<"z">>, <<"0", "0">>, <<"z", "z">>}}
            \cup {Sha256Prefix \o SubSeq(d, 1, Len(d) - 1)}
    IN ShortStrings
       \cup UNION {Around(HmacHex(raw, AllSecrets[n])) : n \in 1..Len(AllSecrets)}

VerifyPayloads ==
    {Buffer(B_empty), Buffer(B_started), Buffer(B_invalid), Parsed(B_started)}
VerifySecrets == {Undefined, "", "whsec_A", "whsec_B"}

VerifyInputs ==
    {[payload |-> p, signature |-> h, secret |-> s, out |-> "pending"] :
        p \in VerifyPayloads, s \in VerifySecrets,
        h \in {NoHeader} \cup {Header(v) : v \in UNION {VerifySignatures(q.raw) : q \in VerifyPayloads}}}

InitVerify ==
    /\ WEBHOOK_SECRET = Undefined
    /\ DAILY_API_KEY = ApiKey
    /\ run = 1
    /\ server = "starting"
    /\ logFile = <<>>
    /\ logWritable = TRUE
    /\ reqs = <<>>
    /\ vcall \in VerifyInputs
    /\ cli = NoSession
    /\ setup = NoSetup

\* The call returns or throws.
VerifyCall ==
    /\ vcall.out = "pending"
    /\ vcall' = [vcall EXCEPT !.out =
                    verifyWebhookSignature(vcall.payload, vcall.signature, vcall.secret)]
    /\ UNCHANGED <<WEBHOOK_SECRET, DAILY_API_KEY, run, server, logFile, logWritable, reqs,
                 cli, setup>>

\* The next call, on other arguments.
VerifyAgain ==
    /\ vcall.out # "pending"
    /\ vcall' \in VerifyInputs
    /\ UNCHANGED <<WEBHOOK_SECRET, DAILY_API_KEY, run, server, logFile, logWritable, reqs,
                 cli, setup>>

NextVerify == VerifyCall \/ VerifyAgain

SpecVerify == InitVerify /\ [][NextVerify]_vars

----------------------------------------------------------------------------
(* The command-line tester, daily-test.js: the specification SpecCli *)

\* How many room names the tester generates.
MaxRooms == 2

receiverVars ==
    <<WEBHOOK_SECRET, DAILY_API_KEY, run, server, logFile, logWritable, reqs, vcall>>

\* How getDomainConfig ends: the call fails, or the response carries a
\* domain_id, or it carries none.
DomainOutcomes == {"fail", "ok", "noDomainId"}

\* How a call that changes a room or a recording ends.
CallOutcomes == {"ok", "fail"}

Call(op, roomName) == [op |-> op, roomName |-> roomName]
Ran(command, error, calls) == [command |-> command, error |-> error, calls |-> calls]

\* fs.writeFileSync('room-info.json', ...) and ('recording-info.json', ...)
RoomInfo(roomName) == [exists |-> TRUE, roomName |-> roomName, recordingId |-> 0]
RecordingInfo(recordingId, roomName) ==
    [exists |-> TRUE, roomName |-> roomName, recordingId |-> recordingId]

InitCli ==
    /\ WEBHOOK_SECRET = Undefined
    /\ DAILY_API_KEY = ApiKey
    /\ run = 1
    /\ server = "starting"
    /\ logFile = <<>>
    /\ logWritable = TRUE
    /\ reqs = <<>>
    /\ vcall = NoCall
    /\ cli = NoSession
    /\ setup = NoSetup

\* node daily-test.js create-room: the name is generated and the room
\* posted; the tokens are signed, which throws when the domain
\* configuration had no domain_id; then room-info.json is written.
CreateRoom ==
    /\ cli.names < MaxRooms
    /\ \E domain \in DomainOutcomes, res \in CallOutcomes :
         LET roomName == cli.names + 1
             calls == <<Call("createRoom", roomName)>>
         IN cli' =
              IF domain = "fail"
              THEN [cli EXCEPT !.last = Ran("create-room", TRUE, <<>>)]
              ELSE IF res = "fail"
              THEN [cli EXCEPT !.names = roomName,
                               !.last = Ran("create-room", TRUE, calls)]
              ELSE IF domain = "noDomainId"
              THEN [cli EXCEPT !.names = roomName,
                               !.rooms = @ \cup {roomName},
                               !.last = Ran("create-room", TRUE, calls)]
              ELSE [cli EXCEPT !.names = roomName,
                               !.rooms = @ \cup {roomName},
                               !.roomInfo = RoomInfo(roomName),
                               !.last = Ran("create-room", FALSE, calls)]
    /\ UNCHANGED <<receiverVars, setup>>

\* node daily-test.js start-recording: room-info.json is required; the
\* recording is started in its room and recording-info.json written.
StartRecording ==
    /\ \E domain \in DomainOutcomes, res \in CallOutcomes :
         LET roomName == cli.roomInfo.roomName
             calls == <<Call("startRecording", roomName)>>
         IN cli' =
              IF domain = "fail" \/ ~cli.roomInfo.exists
              THEN [cli EXCEPT !.last = Ran("start-recording", TRUE, <<>>)]
              ELSE IF res = "fail"
              THEN [cli EXCEPT !.last = Ran("start-recording", TRUE, calls)]
              ELSE [cli EXCEPT !.started = @ \cup {roomName},
                               !.recordingInfo = RecordingInfo(roomName, roomName),
                               !.last = Ran("start-recording", FALSE, calls)]
    /\ UNCHANGED <<receiverVars, setup>>

\* A stop-recording that asks for room-info.json only.
StopRecordingNeedingRoomOnly ==
    /\ \E domain \in DomainOutcomes, res \in CallOutcomes :
         LET roomName == cli.roomInfo.roomName
             calls == <<Call("stopRecording", roomName)>>
         IN cli' =
              IF domain = "fail" \/ ~cli.roomInfo.exists
              THEN [cli EXCEPT !.last = Ran("stop-recording", TRUE, <<>>)]
              ELSE [cli EXCEPT !.last = Ran("stop-recording", res = "fail", calls)]
    /\ UNCHANGED <<receiverVars, setup>>

\* node daily-test.js stop-recording: both files are required; the
\* recording of the room named in room-info.json is stopped.
StopRecording ==
    /\ \E domain \in DomainOutcomes, res \in CallOutcomes :
         LET roomName == cli.roomInfo.roomName
             calls == <<Call("stopRecording", roomName)>>
         IN cli' =
              IF domain = "fail" \/ ~(cli.roomInfo.exists /\ cli.recordingInfo.exists)
              THEN [cli EXCEPT !.last = Ran("stop-recording", TRUE, <<>>)]
              ELSE [cli EXCEPT !.last = Ran("stop-recording", res = "fail", calls)]
    /\ UNCHANGED <<receiverVars, setup>>

\* A delete-room that removes the session files first.
DeleteRoomUnlinkingFirst ==
    /\ \E domain \in DomainOutcomes, res \in CallOutcomes :
         LET roomName == cli.roomInfo.roomName
             calls == <<Call("deleteRoom", roomName)>>
         IN cli' =
              IF domain = "fail" \/ ~cli.roomInfo.exists
              THEN [cli EXCEPT !.last = Ran("delete-room", TRUE, <<>>)]
              ELSE [cli EXCEPT !.rooms = IF res = "ok" THEN @ \ {roomName} ELSE @,
                               !.roomInfo = NoFile,
                               !.recordingInfo = NoFile,
                               !.last = Ran("delete-room", res = "fail", calls)]
    /\ UNCHANGED <<receiverVars, setup>>

\* node daily-test.js delete-room: room-info.json is required; its room is
\* deleted, then room-info.json and, if there is one, recording-info.json
\* are unlinked.
DeleteRoom ==
    /\ \E domain \in DomainOutcomes, res \in CallOutcomes :
         LET roomName == cli.roomInfo.roomName
             calls == <<Call("deleteRoom", roomName)>>
         IN cli' =
              IF domain = "fail" \/ ~cli.roomInfo.exists
              THEN [cli EXCEPT !.last = Ran("delete-room", TRUE, <<>>)]
              ELSE IF res = "fail"
              THEN [cli EXCEPT !.last = Ran("delete-room", TRUE, calls)]
              ELSE [cli EXCEPT !.rooms = @ \ {roomName},
                               !.roomInfo = NoFile,
                               !.recordingInfo = NoFile,
                               !.last = Ran("delete-room", FALSE, calls)]
    /\ UNCHANGED <<receiverVars, setup>>

\* node daily-test.js list-rooms: nothing of the session is read or written.
ListRooms ==
    /\ \E domain \in DomainOutcomes, res \in CallOutcomes :
         cli' = [cli EXCEPT !.last = Ran("list-rooms", domain = "fail" \/ res = "fail", <<>>)]
    /\ UNCHANGED <<receiverVars, setup>>

NextCli == CreateRoom \/ StartRecording \/ StopRecording \/ DeleteRoom \/ ListRooms

SpecCli == InitCli /\ [][NextCli]_vars

----------------------------------------------------------------------------
(* WebhookSetup.setupWebhook: the specification SpecSetup *)

\* How many subscriptions the provider holds before setupWebhook is called.
MaxHooks == 2

Placeholder == "your_webhook_secret_here"
GeneratedSecret == "<32 random bytes, base64>"

\* this.webhookSecret is a secret to sign with.
ValidSecret(secret) == Truthy(secret) /\ secret # Placeholder

\* How GET /webhooks ends: the call fails; the response body is an object
\* whose data member is the list; the response body is the list itself.
ListOutcomes == {"fail", "data", "array"}

\* The ids of a set of subscriptions in the order of the provider's list.
RECURSIVE Ascending(_)
Ascending(ids) ==
    IF ids = {} THEN <<>>
    ELSE LET least == CHOOSE x \in ids : \A y \in ids : x <= y
         IN <<least>> \o Ascending(ids \ {least})

\* The id the provider gives to the subscription it creates.
NewId == MaxHooks + 1

InitSetup ==
    /\ WEBHOOK_SECRET = Undefined
    /\ DAILY_API_KEY = ApiKey
    /\ run = 1
    /\ server = "starting"
    /\ logFile = <<>>
    /\ logWritable = TRUE
    /\ reqs = <<>>
    /\ vcall = NoCall
    /\ cli = NoSession
    /\ \E hooks \in SUBSET (1..MaxHooks), secret \in {Undefined, Placeholder, SenderSecret} :
          setup = [NoSetup EXCEPT !.webhooks = hooks, !.webhookSecret = secret,
                                  !.envSecret = secret]

\* setupWebhook up to its first await: a secret is generated and written to
\* .env when there is none or only the placeholder; the list is requested.
SetupBegin ==
    /\ setup.pc = "idle"
    /\ setup' = IF ValidSecret(setup.webhookSecret)
                THEN [setup EXCEPT !.pc = "listing"]
                ELSE [setup EXCEPT !.pc = "listing", !.webhookSecret = GeneratedSecret,
                                   !.envSecret = GeneratedSecret]
    /\ UNCHANGED <<receiverVars, cli>>

\* The list call returns: existingWebhooks.data is the list when the
\* response has a data member, and nothing to iterate otherwise. listed
\* records what the provider listed whatever the shape of the response.
SetupListed ==
    /\ setup.pc = "listing"
    /\ \E outcome \in ListOutcomes :
          setup' = [setup EXCEPT !.pc = "deleting",
                                 !.listed = IF outcome = "fail" THEN {} ELSE setup.webhooks,
                                 !.todo = IF outcome = "data" THEN Ascending(setup.webhooks)
                                          ELSE <<>>]
    /\ UNCHANGED <<receiverVars, cli>>

\* One turn of the loop: the delete of the next listed subscription returns;
\* a failure is printed and the loop goes on.
SetupDeleted ==
    /\ setup.pc = "deleting"
    /\ setup.todo # <<>>
    /\ \E outcome \in CallOutcomes :
          LET id == Head(setup.todo)
          IN setup' = [setup EXCEPT !.todo = Tail(@),
                                    !.attempted = @ \cup {id},
                                    !.webhooks = IF outcome = "ok" THEN @ \ {id} ELSE @]
    /\ UNCHANGED <<receiverVars, cli>>

\* After the loop the new subscription is posted, signed with the secret;
\* when the call succeeds webhook-info.json is written and setupWebhook
\* returns, when it fails the error is rethrown.
SetupCreated ==
    /\ setup.pc = "deleting"
    /\ setup.todo = <<>>
    /\ \E outcome \in CallOutcomes :
          setup' = IF outcome = "fail"
                   THEN [setup EXCEPT !.pc = "thrown"]
                   ELSE [setup EXCEPT !.pc = "returned",
                                      !.created = NewId,
                                      !.webhooks = @ \cup {NewId},
                                      !.hmac = setup.webhookSecret]
    /\ UNCHANGED <<receiverVars, cli>>

NextSetup == SetupBegin \/ SetupListed \/ SetupDeleted \/ SetupCreated

SpecSetup == InitSetup /\ [][NextSetup]_vars

----------------------------------------------------------------------------
(* Vocabulary of the properties *)

\* The lines of the log file written for request i, in file order.
FileLines(i) ==
    LET own == SelectSeq(logFile, LAMBDA e : e.req = i)
    IN [k \in 1..Len(own) |-> own[k].line]

InSeq(x, seq) == \E k \in 1..Len(seq) : seq[k] = x

\* A POST delivery that has been answered, none of whose log writes failed.
Answered(q) == q.method = "POST" /\ q.pc = "done" /\ ~q.logErr

SecretConfigured == Truthy(WEBHOOK_SECRET)

\* The signature header the delivery carries, if any.
SentSignature(q) == IF q.headers.xDaily.set THEN q.headers.xDaily ELSE q.headers.xSig

\* The header is the HMAC of the body under the configured secret, bare or
\* with the sha256= tag.
MatchesHmac(q) ==
    /\ SentSignature(q).set
    /\ SentSignature(q).val \in
          {HmacHex(q.raw, WEBHOOK_SECRET), Sha256Prefix \o HmacHex(q.raw, WEBHOOK_SECRET)}

\* How the signature stage of the handler ends for the delivery: "bypassed"
\* when verification is not attempted, else what verifyWebhookSignature
\* returns or throws.
SignatureStage(q) ==
    LET signature == SignatureOf(q.headers)
    IN IF ~(SecretConfigured /\ HeaderTruthy(signature)) THEN "bypassed"
       ELSE verifyWebhookSignature(BodyParser(q.path, q.raw).body, signature, WEBHOOK_SECRET)

\* An accepted delivery: a POST that reached a route handler and passed its
\* signature stage.
Accepted(q) ==
    /\ q.method = "POST"
    /\ ~BodyParser(q.path, q.raw).err
    /\ SignatureStage(q) \in {"bypassed", "true"}

KnownTypes == {"recording.started", "recording.ready-to-download", "recording.error"}

\* The delivery caused none of: a decode of the body by the handler, a
\* dispatch, a provider lookup.
NoProcessing(q) == ~q.parsed /\ q.handler = "none" /\ q.calls = <<>>

----------------------------------------------------------------------------
(* C1 *)

\* C1: with a secret configured, a POST whose signature header does not match
\* the HMAC of the body is answered 401 "Invalid signature", appends only the
\* authentication-failure line, and is neither parsed, dispatched nor
\* enriched -- for every incorrect header value. (A header sent with the
\* empty string as its value is left to C4.)
C1_BadSignatureIs401 ==
    \A i \in 1..Len(reqs) :
        LET q == reqs[i]
        IN (Answered(q) /\ SecretConfigured /\ HeaderTruthy(SentSignature(q))
              /\ ~MatchesHmac(q))
           => /\ q.status = 401
              /\ q.resBody = "Invalid signature"
              /\ FileLines(i) = <<InvalidSignatureLine>>
              /\ NoProcessing(q)

----------------------------------------------------------------------------
(* C2 *)

\* C2: for every payload P and secret S, verifyWebhookSignature(P, hmac(P,S), S)
\* is true, and verifyWebhookSignature(P, hmac(P,S'), S) is false for every
\* secret S' other than S. (P ranges over byte strings, S and S' over
\* non-empty secrets: the empty secret is the unconfigured one.)
C2_HmacRoundTrip ==
    (vcall.out # "pending" /\ vcall.payload.isBuffer /\ Truthy(vcall.secret)
        /\ vcall.signature.set)
    => \A n \in 1..Len(AllSecrets) :
          vcall.signature.val = HmacHex(vcall.payload.raw, AllSecrets[n])
          => vcall.out = (IF AllSecrets[n] = vcall.secret THEN "true" ELSE "false")

\* A call with the digest under the right secret has returned.
C2_Witness ==
    /\ vcall.out = "true"
    /\ vcall.payload = Buffer(B_started)
    /\ vcall.secret = "whsec_B"
    /\ vcall.signature = Header(HmacHex(B_started, "whsec_B"))

----------------------------------------------------------------------------
(* C3 *)

\* The signature, once the tag is stripped, holds a character that is not hex
\* or has not the length of a hex digest.
MalformedSignature(h) ==
    LET v == IF startsWith(h.val, Sha256Prefix) THEN slice(h.val, 7) ELSE h.val
    IN \/ \E k \in 1..Len(v) : unhex(v[k]) < 0
       \/ Len(v) # 2 * DigestBytes

\* C3: verifyWebhookSignature never throws, and returns false, on malformed
\* input: a missing or empty header, a missing secret, a signature that is
\* not hex or whose length is not the digest's; an empty body does not make
\* it throw either.
C3_MalformedInputIsFalse ==
    (vcall.out # "pending" /\ vcall.payload.isBuffer)
    => /\ vcall.out \notin Thrown
       /\ (\/ ~HeaderTruthy(vcall.signature)
           \/ ~Truthy(vcall.secret)
           \/ MalformedSignature(vcall.signature)) => vcall.out = "false"

----------------------------------------------------------------------------
(* C4 *)

\* C4: with a secret configured, a POST that carries neither x-daily-signature
\* nor x-signature is an authentication failure: answered 401, logged, and
\* neither parsed, dispatched nor enriched.
C4_MissingSignatureIs401 ==
    \A i \in 1..Len(reqs) :
        LET q == reqs[i]
        IN (Answered(q) /\ SecretConfigured /\ ~BodyParser(q.path, q.raw).err
              /\ ~q.headers.xDaily.set /\ ~q.headers.xSig.set)
           => /\ q.status = 401
              /\ InSeq(InvalidSignatureLine, FileLines(i))
              /\ NoProcessing(q)

----------------------------------------------------------------------------
(* C5 *)

\* The URL field the record must show for the way a lookup ended.
ExpectedField(outcome, link) == IF outcome = "link" THEN link ELSE "Not available"

\* C5: every accepted recording.ready-to-download delivery, however its two
\* lookups end, produces exactly one log line, in which each URL field whose
\* lookup failed or returned nothing reads 'Not available', and is answered
\* 200.
C5_ReadyLogsOneLine ==
    \A i \in 1..Len(reqs) :
        LET q == reqs[i]
            event == ParseEvent(BodyParser(q.path, q.raw).body)
        IN (Answered(q) /\ Accepted(q) /\ event.ok /\ ~event.isNull
              /\ event.type = "recording.ready-to-download")
           => /\ q.status = 200
              /\ Len(FileLines(i)) = 1
              /\ event.hasPayload =>
                    FileLines(i)[1] =
                        ReadyLine(event.room_name, event.recording_id,
                                  ExpectedField(q.dlOutcome, "https://download"),
                                  ExpectedField(q.alOutcome, "https://access"))

----------------------------------------------------------------------------
(* C6 *)

\* C6: an accepted POST whose type is none of the three recording types is
\* not rejected: a line with the type as received is logged, the answer is
\* 200 {"status":"received"}, and no lookup is made.
C6_UnknownTypeAcknowledged ==
    \A i \in 1..Len(reqs) :
        LET q == reqs[i]
            event == ParseEvent(BodyParser(q.path, q.raw).body)
        IN (Answered(q) /\ Accepted(q) /\ event.ok /\ ~event.isNull
              /\ event.type # Undefined /\ event.type \notin KnownTypes)
           => /\ q.status = 200
              /\ q.resBody = "received"
              /\ InSeq(ReceivedTypeLine(event.type), FileLines(i))
              /\ q.calls = <<>>

\* An accepted delivery of type meeting.started has been answered, with the
\* secret configured and a valid signature.
C6_Witness ==
    \E i \in 1..Len(reqs) :
        /\ Answered(reqs[i]) /\ Accepted(reqs[i])
        /\ reqs[i].raw = B_unknown
        /\ SecretConfigured /\ MatchesHmac(reqs[i])

----------------------------------------------------------------------------
(* C7 *)

\* C7: a POST /webhook of a recording.started event with a payload and a
\* valid signature header is answered 200 {"status":"received"} and appends a
\* RECORDING STARTED line with the payload's room name and recording id.
C7_StartedLogged ==
    \A i \in 1..Len(reqs) :
        LET q == reqs[i]
            event == JSONParse(q.raw)
        IN (Answered(q) /\ q.path = "/webhook" /\ SecretConfigured /\ MatchesHmac(q)
              /\ event.ok /\ ~event.isNull /\ event.type = "recording.started"
              /\ event.hasPayload)
           => /\ q.status = 200
              /\ q.resBody = "received"
              /\ InSeq(StartedLine(event.room_name, event.recording_id), FileLines(i))

\* Such a delivery has been answered.
C7_Witness ==
    \E i \in 1..Len(reqs) :
        /\ Answered(reqs[i]) /\ reqs[i].path = "/webhook"
        /\ SecretConfigured /\ MatchesHmac(reqs[i])
        /\ reqs[i].raw = B_started

----------------------------------------------------------------------------
(* C8 *)

\* C8: POST / and POST /webhook behave identically: the same body, headers
\* and secret give the same status and response body, the same lines in the
\* log and the same lookups.
C8_RoutesIdentical ==
    \A i, j \in 1..Len(reqs) :
        LET p == reqs[i]
            q == reqs[j]
        IN (Answered(p) /\ Answered(q) /\ p.path = "/" /\ q.path = "/webhook"
              /\ p.raw = q.raw /\ p.headers = q.headers)
           => /\ p.status = q.status
              /\ p.resBody = q.resBody
              /\ FileLines(i) = FileLines(j)
              /\ p.calls = q.calls

----------------------------------------------------------------------------
(* C9 *)

\* C9: a POST whose body cannot be decoded (and whose signature is not at
\* fault: none is required, or the header matches) is answered 500, a line
\* recording the error is appended, no handler is dispatched and no lookup is
\* made.
C9_UndecodableIs500 ==
    \A i \in 1..Len(reqs) :
        LET q == reqs[i]
        IN (Answered(q) /\ ~JSONParse(q.raw).ok
              /\ (~SecretConfigured \/ MatchesHmac(q)))
           => /\ q.status = 500
              /\ \E k \in 1..Len(FileLines(i)) : FileLines(i)[k].tag = "WEBHOOK ERROR"
              /\ q.handler = "none"
              /\ q.calls = <<>>

----------------------------------------------------------------------------
(* C10 *)

\* C10, as claimed: a POST whose body decodes but has no type field fails
\* classification: it is dispatched as no kind of event and is not
\* acknowledged as received.
C10_NoTypeIsMalformed ==
    \A i \in 1..Len(reqs) :
        LET q == reqs[i]
        IN (Answered(q) /\ JSONParse(q.raw).ok /\ JSONParse(q.raw).type = Undefined)
           => /\ q.handler = "none"
              /\ ~(q.status = 200 /\ q.resBody = "received")

\* C10, amended: an accepted POST whose body decodes to an object without a
\* type field takes the default branch of the switch: it is logged with the
\* type undefined, causes no lookup, and is acknowledged with 200
\* {"status":"received"}.
C10_NoTypeIsUnknown ==
    \A i \in 1..Len(reqs) :
        LET q == reqs[i]
            event == JSONParse(q.raw)
        IN (Answered(q) /\ Accepted(q) /\ event.ok /\ ~event.isNull
              /\ event.type = Undefined)
           => /\ q.status = 200
              /\ q.resBody = "received"
              /\ q.handler = "default"
              /\ InSeq(ReceivedTypeLine(Undefined), FileLines(i))
              /\ q.calls = <<>>

\* An accepted delivery without a type field has been answered.
C10_Witness ==
    \E i \in 1..Len(reqs) :
        /\ Answered(reqs[i]) /\ Accepted(reqs[i])
        /\ reqs[i].raw = B_noType

----------------------------------------------------------------------------
(* C11 *)

\* C11: the acknowledgment of a recording.ready-to-download delivery does not
\* wait for the enrichment: while a delivery is waiting for a provider lookup
\* to return, its 200 response has already been sent.
C11_AckBeforeLookups ==
    \A i \in 1..Len(reqs) :
        AwaitingLookup(reqs[i])
        => reqs[i].status = 200 /\ reqs[i].resBody = "received"

----------------------------------------------------------------------------
(* C12 *)

\* C12: every GET probe succeeds -- GET / and GET /webhook are answered 200
\* with the verification body, GET /health is answered 200 with status
\* "healthy" and the configured log path -- whether or not a secret is
\* configured, whether or not the request carries a signature header, and
\* whatever the other requests are doing.
C12_ProbesSucceed ==
    \A i \in 1..Len(reqs) :
        LET q == reqs[i]
        IN (q.method = "GET" /\ q.path \in Paths \cup {"/health"})
           => /\ q.pc = "done"
              /\ q.status = 200
              /\ q.path \in Paths => q.resBody = "Daily.co webhook endpoint verified"
              /\ q.path = "/health" => q.resBody = "healthy" /\ q.resLogFile = LOG_FILE

\* With a secret configured, a GET /health carrying a signature header that
\* no POST would pass with has been answered while a delivery waits for a
\* lookup.
C12_Witness ==
    /\ SecretConfigured
    /\ Len(reqs) = 2
    /\ AwaitingLookup(reqs[1])
    /\ reqs[2].method = "GET" /\ reqs[2].path = "/health"
    /\ HeaderTruthy(SentSignature(reqs[2]))
    /\ reqs[2].status = 200

----------------------------------------------------------------------------
(* C13 *)

\* C13: a request to / or /webhook whose method is neither GET nor POST is
\* answered 405, on both routes.
C13_OtherMethodIs405 ==
    \A i \in 1..Len(reqs) :
        LET q == reqs[i]
        IN (q.path \in Paths /\ q.method \notin {"GET", "POST"})
           => q.pc = "done" /\ q.status = 405 /\ q.resBody = "Method not allowed"

----------------------------------------------------------------------------
(* C14 *)

\* C14: a process started without DAILY_API_KEY never binds its listener: it
\* is starting or has exited, and it has served no request.
C14_NoKeyNoListener ==
    ~Truthy(DAILY_API_KEY)
    => /\ server # "listening"
       /\ run = 1 => reqs = <<>>

----------------------------------------------------------------------------
(* C15 *)

\* The process that served the delivery had no secret: the signature stage
\* was skipped.
ServedUnverified(q) == q.method = "POST" /\ ~Truthy(q.secret)

\* The process that served the delivery verified its signature against its
\* secret.
ServedVerified(q) ==
    /\ q.method = "POST"
    /\ Truthy(q.secret)
    /\ HeaderTruthy(SignatureOf(q.headers))
    /\ verifyWebhookSignature(q.body, SignatureOf(q.headers), q.secret) = "true"

\* C15: without a secret a POST delivery is processed unverified, and what
\* the log says of it differs from what the log says of the same event,
\* enriched the same way, when a process with a secret verified it.
C15_UnverifiedDistinguishable ==
    \A i, j \in 1..Len(reqs) :
        LET u == reqs[i]
            v == reqs[j]
        IN (/\ Answered(u) /\ ServedUnverified(u)
            /\ Answered(v) /\ ServedVerified(v)
            /\ u.path = v.path /\ u.raw = v.raw
            /\ u.dlOutcome = v.dlOutcome /\ u.alOutcome = v.alOutcome)
           => /\ u.status = 200 /\ u.handler # "none"
              /\ FileLines(i) # FileLines(j)

----------------------------------------------------------------------------
(* C16 *)

\* A string of hex digits, in either case, as long as a digest.
IsHexDigest(v) ==
    /\ Len(v) = 2 * DigestBytes
    /\ \A k \in 1..Len(v) : unhex(v[k]) >= 0

\* C16: for every payload, secret and hex digest D, the call of
\* verifyWebhookSignature on the bare header value D ends as the call on
\* "sha256=" followed by D does: both return the same value or throw the
\* same error.
C16_PrefixInsensitive ==
    (vcall.out # "pending" /\ vcall.signature.set /\ IsHexDigest(vcall.signature.val))
    => vcall.out = verifyWebhookSignature(vcall.payload,
                                          Header(Sha256Prefix \o vcall.signature.val),
                                          vcall.secret)

\* The call on the bare digest of an undecodable body has returned true, as
\* the call on the tagged digest does.
C16_Witness ==
    /\ vcall.out = "true"
    /\ vcall.payload = Buffer(B_invalid)
    /\ vcall.secret = "whsec_A"
    /\ vcall.signature = Header(HmacHex(B_invalid, "whsec_A"))
    /\ verifyWebhookSignature(vcall.payload,
                              Header(Sha256Prefix \o HmacHex(B_invalid, "whsec_A")),
                              vcall.secret) = "true"

----------------------------------------------------------------------------
(* C17 *)

IsPrefix(s, t) == Len(s) <= Len(t) /\ SubSeq(t, 1, Len(s)) = s

\* C17: the log is append-only -- whatever step the process takes (serving
\* a request, resuming one after a lookup, starting, being stopped by a
\* signal, failing to write), the log before the step is a prefix of the log
\* after it.
C17_LogAppendOnly == [][IsPrefix(logFile, logFile')]_vars

\* A second process has been started on the log of the first, which a signal
\* stopped, has added its start line and the line of a delivery, and has
\* then failed to write the line of another.
C17_Witness ==
    /\ run = 2
    /\ ~logWritable
    /\ Len(logFile) = 4
    /\ logFile[1].line = ServerStartedLine
    /\ logFile[2].line \in {ShutdownLine, TerminatedLine}
    /\ logFile[3].line = ServerStartedLine
    /\ logFile[4].req = 1
    /\ Len(reqs) = 2 /\ reqs[2].logErr

----------------------------------------------------------------------------
(* C18 *)

\* The two requests are the same request, and their lookups ended the same
\* way.
SameRequest(u, v) ==
    /\ u.method = v.method /\ u.path = v.path
    /\ u.headers = v.headers /\ u.raw = v.raw
    /\ u.dlOutcome = v.dlOutcome /\ u.alOutcome = v.alOutcome

\* C18: a failed append never fails the request -- a request one of whose
\* log writes failed is answered, with the status and the body the same
\* request gets when its writes succeed, and none of its lines from the
\* failed one on is in the file.
C18_LogFailureHarmless ==
    \A i \in 1..Len(reqs) :
        LET u == reqs[i]
        IN (u.pc = "done" /\ u.logErr)
           => /\ \A j \in 1..Len(reqs) :
                    LET v == reqs[j]
                    IN (v.pc = "done" /\ ~v.logErr /\ SameRequest(u, v))
                       => /\ u.status = v.status
                          /\ u.resBody = v.resBody
                          /\ u.resLogFile = v.resLogFile
              /\ Len(FileLines(i)) < Len(u.lines)
              /\ IsPrefix(FileLines(i), u.lines)

\* A recording.ready-to-download delivery whose record could not be written
\* has been acknowledged as the same delivery was before the file became
\* unwritable.
C18_Witness ==
    /\ Len(reqs) = 2
    /\ SameRequest(reqs[1], reqs[2])
    /\ reqs[1].raw = B_ready /\ reqs[1].path = "/webhook"
    /\ reqs[1].pc = "done" /\ ~reqs[1].logErr /\ reqs[1].status = 200
    /\ reqs[2].pc = "done" /\ reqs[2].logErr /\ reqs[2].status = 200
    /\ FileLines(2) = <<>>

----------------------------------------------------------------------------
(* C19 *)

\* One of the lines the request handed to writeLog is an error line.
HandedErrorLine(q) == \E k \in 1..Len(q.lines) : q.lines[k].tag = "WEBHOOK ERROR"

\* C19: no error is dropped without a log line -- a request refused for its
\* signature (401), one whose body cannot be decoded (400 or 500), one that
\* met an internal fault (500) and one for which a provider lookup failed
\* have each handed an error line to writeLog.
C19_ErrorsLogged ==
    \A i \in 1..Len(reqs) :
        LET q == reqs[i]
        IN (/\ q.method = "POST"
            /\ q.pc = "done"
            /\ \/ q.status \in {400, 401, 500}
               \/ q.dlOutcome = "error"
               \/ q.alOutcome = "error")
           => HandedErrorLine(q)

----------------------------------------------------------------------------
(* C20 *)

\* The body parser let the delivery through to its route handler.
ReachedHandler(q) == ~BodyParser(q.path, q.raw).err

\* C20: a POST delivery goes through its stages in order -- the body reaches
\* the signature stage as raw bytes; it is decoded only once the signature
\* has been verified over those bytes, or when no secret is configured; a
\* handler runs only after the decode; the 200 is sent only after the
\* dispatch.
C20_StagesInOrder ==
    \A i \in 1..Len(reqs) :
        LET q == reqs[i]
        IN (q.method = "POST" /\ q.path \in Paths)
           => /\ ReachedHandler(q) => q.body.isBuffer
              /\ q.parsed => (~SecretConfigured \/ SignatureStage(q) = "true")
              /\ q.handler # "none" => q.parsed
              /\ q.status = 200 => q.handler # "none"

----------------------------------------------------------------------------
(* C21 *)

\* The request has issued the call to the provider API named.
Issued(q, api) == \E k \in 1..Len(q.calls) : q.calls[k].api = api

\* C21: the two lookups of a recording.ready-to-download delivery run
\* concurrently -- while the metadata lookup is outstanding the access-link
\* lookup has been started too -- and the record is logged once both have
\* returned.
C21_LookupsConcurrent ==
    \A i \in 1..Len(reqs) :
        LET q == reqs[i]
        IN /\ q.pc = "awaitDownload" => Issued(q, "access-link")
           /\ (\E k \in 1..Len(q.lines) : q.lines[k].tag = "RECORDING STOPPED & READY")
              => q.dlOutcome # "none" /\ q.alOutcome # "none"

----------------------------------------------------------------------------
(* C22 *)

\* How many times the request has called the provider API named.
CallCount(q, api) == Cardinality({k \in 1..Len(q.calls) : q.calls[k].api = api})

\* C22: enrichment is single-attempt and only for Ready events -- a delivery
\* calls each of the two provider lookups at most once, whatever the outcome
\* of the call, and calls neither when its event is not a
\* recording.ready-to-download or when it is not accepted.
C22_SingleAttempt ==
    \A i \in 1..Len(reqs) :
        LET q == reqs[i]
        IN /\ CallCount(q, "recordings") <= 1
           /\ CallCount(q, "access-link") <= 1
           /\ Len(q.calls) = CallCount(q, "recordings") + CallCount(q, "access-link")
           /\ (q.dlOutcome # "none") = Issued(q, "access-link")
           /\ q.calls # <<>>
              => /\ Accepted(q)
                 /\ ParseEvent(q.body).type = "recording.ready-to-download"

\* A delivery both of whose lookups failed has been acknowledged after two
\* calls, one of each.
C22_Witness ==
    \E i \in 1..Len(reqs) :
        /\ reqs[i].pc = "done" /\ reqs[i].status = 200
        /\ reqs[i].dlOutcome = "error" /\ reqs[i].alOutcome = "error"
        /\ Len(reqs[i].calls) = 2
        /\ \E j \in 1..Len(reqs) :
              /\ reqs[j].raw = B_error /\ reqs[j].status = 200 /\ reqs[j].calls = <<>>

----------------------------------------------------------------------------
(* C23 *)

\* The positions in the log file of the lines written for request i.
Positions(i) == {k \in 1..Len(logFile) : logFile[k].req = i}

\* Nothing of another request lies between two lines of request i.
Contiguous(i) ==
    \A k, m \in Positions(i) : \A n \in k..m : logFile[n].req = i

\* C23: the log follows the order in which requests complete, not the order
\* in which they arrive -- all that is logged for a request is logged when
\* it completes, so the lines of one request are never interleaved with the
\* lines of another; and a request is acknowledged when its lines are
\* logged.
C23_LogInCompletionOrder ==
    \A i \in 1..Len(reqs) :
        /\ Contiguous(i)
        /\ AwaitingLookup(reqs[i]) => Positions(i) = {} /\ reqs[i].status = 0

----------------------------------------------------------------------------
(* C24 *)

\* The step is the exit of the process on a signal.
Exits == server # "exited" /\ server' = "exited"

\* The step appends no line for request i.
NoLineFor(i) == \A k \in (Len(logFile) + 1)..Len(logFile') : logFile'[k].req # i

----------------------------------------------------------------------------
(* C25 *)

\* C25: a request to / or /webhook gets exactly one response -- none while
\* its handler is suspended on a lookup, one when it has ended, whether with
\* 200, 400, 401, 404, 405 or 500 -- and once it has been answered nothing
\* about it changes any more.
C25_ExactlyOneResponse ==
    [][\A i \in 1..Len(reqs') :
          LET q == reqs'[i]
          IN q.path \in Paths
             => /\ q.sent = IF q.pc = "done" THEN 1 ELSE 0
                /\ q.pc = "done" <=> q.status \in {200, 400, 401, 404, 405, 500}
                /\ (i <= Len(reqs) /\ reqs[i].sent = 1) => q = reqs[i]
      ]_vars

\* Deliveries that ended in the catch block, one for an exception thrown by
\* the verification and one for a body that does not parse, have each been
\* answered once.
C25_Witness ==
    /\ Len(reqs) = 2
    /\ reqs[1].status = 500 /\ reqs[1].sent = 1 /\ SignatureStage(reqs[1]) \in Thrown
    /\ reqs[2].status = 500 /\ reqs[2].sent = 1 /\ reqs[2].raw = B_invalid

----------------------------------------------------------------------------
(* C26 *)

\* The tags of the event records.
RecordTags == {"RECORDING STARTED", "RECORDING STOPPED & READY", "RECORDING ERROR"}

\* The event of the delivery is of a known type and has no payload field.
KnownTypeWithoutPayload(q) ==
    LET event == ParseEvent(BodyParser(q.path, q.raw).body)
    IN event.ok /\ ~event.isNull /\ event.type \in KnownTypes /\ ~event.hasPayload

----------------------------------------------------------------------------
(* C27 *)

\* The step is a run of the command named.
RunOf(command) == cli' # cli /\ cli'.last.command = command

\* The step leaves both session files as they are.
FilesUnchanged ==
    cli'.roomInfo = cli.roomInfo /\ cli'.recordingInfo = cli.recordingInfo

\* C27: delete-room removes the session files only once the provider has
\* deleted the room -- a run that reports an error, the failure of the delete
\* call included, leaves room-info.json and recording-info.json as they
\* were; a run that succeeds has sent the delete for the room of
\* room-info.json, the provider has that room no more, and both files are
\* absent.
C27_DeleteRoomFrame ==
    [][RunOf("delete-room")
       => IF cli'.last.error
          THEN FilesUnchanged /\ cli'.rooms = cli.rooms
          ELSE /\ cli.roomInfo.exists
               /\ cli'.last.calls = <<Call("deleteRoom", cli.roomInfo.roomName)>>
               /\ cli.roomInfo.roomName \notin cli'.rooms
               /\ ~cli'.roomInfo.exists /\ ~cli'.recordingInfo.exists
      ]_vars

\* A delete-room whose call the provider refused has left both files of a
\* session with a recording in place.
C27_Witness ==
    /\ cli.last = Ran("delete-room", TRUE, <<Call("deleteRoom", 1)>>)
    /\ cli.roomInfo = RoomInfo(1)
    /\ cli.recordingInfo = RecordingInfo(1, 1)
    /\ 1 \in cli.rooms

----------------------------------------------------------------------------
(* C28 *)

\* The session the command needs is missing: room-info.json for
\* start-recording and delete-room, either file for stop-recording.
SessionMissing(command) ==
    CASE command \in {"start-recording", "delete-room"} -> ~cli.roomInfo.exists
      [] command = "stop-recording" -> ~(cli.roomInfo.exists /\ cli.recordingInfo.exists)
      [] OTHER -> FALSE

\* C28: start-recording, stop-recording and delete-room need the session of
\* the last created room -- run without it, each reports an error, sends no
\* call that changes a room or a recording, and writes or deletes no session
\* file; and since a successful delete-room leaves no session file and only
\* a successful create-room writes room-info.json, this is what each does
\* from a successful delete-room to the next successful create-room.
C28_SessionRequired ==
    [][/\ \A command \in {"start-recording", "stop-recording", "delete-room"} :
             (RunOf(command) /\ SessionMissing(command))
             => /\ cli'.last.error
                /\ cli'.last.calls = <<>>
                /\ FilesUnchanged
                /\ cli'.rooms = cli.rooms /\ cli'.started = cli.started
       /\ (RunOf("delete-room") /\ ~cli'.last.error)
             => ~cli'.roomInfo.exists /\ ~cli'.recordingInfo.exists
       /\ (cli'.roomInfo.exists /\ ~cli.roomInfo.exists)
             => RunOf("create-room") /\ ~cli'.last.error
       /\ cli'.recordingInfo.exists => cli'.roomInfo.exists
      ]_vars

\* After a create-room, a start-recording and a delete-room that all
\* succeeded, a stop-recording has reported an error and sent nothing.
C28_Witness ==
    /\ cli.last = Ran("stop-recording", TRUE, <<>>)
    /\ cli.started = {1}
    /\ cli.rooms = {}
    /\ ~cli.roomInfo.exists /\ ~cli.recordingInfo.exists

----------------------------------------------------------------------------
(* C29 *)

\* C29: whenever recording-info.json exists, room-info.json exists too and
\* both name the same room; and a stop-recording that reaches the provider
\* acts on a room in which a start-recording of the session succeeded.
C29_SessionFilesAgree ==
    /\ cli.recordingInfo.exists
       => /\ cli.roomInfo.exists
          /\ cli.recordingInfo.roomName = cli.roomInfo.roomName
    /\ (cli.last.command = "stop-recording" /\ cli.last.calls # <<>>)
       => cli.last.calls[1].roomName \in cli.started

----------------------------------------------------------------------------
(* C30 *)

\* C30: setupWebhook replaces the subscriptions -- the new subscription is
\* created only after a delete has been sent for every subscription the
\* provider listed, and when setupWebhook has returned the subscription it
\* created is the only one registered with the provider.
C30_SetupReplaces ==
    /\ setup.created # 0 => setup.listed \subseteq setup.attempted
    /\ setup.pc = "returned" => setup.webhooks = {setup.created}

====
